---- MODULE Spec2Model ----
(***************************************************************************)
(* Model of the presentation queue of monitor-controller                   *)
(* (src/src/presentation_queue.py, class PresentationQueueManager).        *)
(*                                                                         *)
(* The manager's fields are the variables queue, current_index,            *)
(* is_playing and loop_enabled; the queue file is the variable disk.       *)
(* Every method is an operator from the manager's state (a record `self`)  *)
(* and its arguments to the state after the call and the returned value,   *)
(* save_queue and load_queue included; the argument ok of a method says    *)
(* whether its file write succeeds.  An action is one call of a method.    *)
(*                                                                         *)
(* Spec      the queue methods on a writable queue file                    *)
(* SpecDisk  the queue methods with file writes that may fail, and         *)
(*           restarts of the process                                       *)
(* SpecLoad  the constructor's load_queue on an arbitrary queue file       *)
(* SpecWS    the WebSocket connections: admission, commands, broadcasts,   *)
(*           disconnects, interleaved at the awaits of the handlers        *)
(* SpecSession  SpecWS for one controller and one display, with the last   *)
(*           frame read on record in call, ret and failed                  *)
(* SpecHTTP  the queue requests of the HTTP server, with sessions admitted *)
(* SpecThreads  the event loop and the HTTP thread store by store: the     *)
(*           commands and the request that write the shared state          *)
(* SpecCmd   the command dispatcher alone: frames applied one after the    *)
(*           other to the shared state, over catalogs of more deck sizes   *)
(* SpecBoth  the queue manager's methods and the dispatcher's commands in  *)
(*           one process                                                   *)
(* Indexes are 0-based as in the source; Seq(s)[i + 1] is s[i] in Python.  *)
(***************************************************************************)
EXTENDS Integers, Sequences, FiniteSets, TLC

VARIABLES queue, current_index, is_playing, loop_enabled, disk, call, ret, failed

\* WebSocketManager (src/src/websocket_manager.py): the two halves of the
\* session registry, the shared presentation state, and per connection its
\* transport, the position of its handle_client task, the broadcast that
\* task is suspended in, and the last frame the endpoint has received;
\* received counts the inbound frames the server has read
VARIABLES clients, client_info, current_state, transport, pc, task, last, received

qvars == <<queue, current_index, is_playing, loop_enabled, disk, call, ret, failed>>

wsvars == <<clients, client_info, current_state, transport, pc, task, last, received>>

vars == <<queue, current_index, is_playing, loop_enabled, disk, call, ret, failed,
          clients, client_info, current_state, transport, pc, task, last, received>>

----------------------------------------------------------------------------
(* Bounds and input sets *)

\* longest list handed to reorder_queue
MaxOrderLen == 2

\* inbound WebSocket frames in one run
MaxFrames == 2

\* most slides of a deck
MaxSlides == 3

\* deck identifiers: non-empty strings (the HTTP handlers reject falsy ids)
Ids == {"A", "B", "C"}

SeqsUpTo(n) == UNION {[1..k -> Ids] : k \in 0..n}

\* lists handed to reorder_queue: the HTTP handler rejects an empty list
NewOrders == SeqsUpTo(MaxOrderLen) \ {<<>>}

Positions == -1..(MaxOrderLen + 1)

----------------------------------------------------------------------------
(* Python values *)

None == "None"

PyBool(b) == IF b THEN "True" ELSE "False"

NoFile == [exists |-> FALSE]

Max(a, b) == IF a >= b THEN a ELSE b

Min(a, b) == IF a <= b THEN a ELSE b

Range(s) == {s[i] : i \in 1..Len(s)}

\* list.index(x): 0-based position of the first occurrence
Index(s, x) == CHOOSE i \in 0..(Len(s) - 1) :
                  /\ s[i + 1] = x
                  /\ \A j \in 0..(i - 1) : s[j + 1] # x

\* list.pop(i) / list.remove(x) at 0-based position i
Pop(s, i) == [k \in 1..(Len(s) - 1) |-> IF k <= i THEN s[k] ELSE s[k + 1]]

\* list.insert(i, x) for 0 <= i <= len(s)
Insert(s, i, x) == [k \in 1..(Len(s) + 1) |->
                      IF k <= i THEN s[k] ELSE IF k = i + 1 THEN x ELSE s[k - 1]]

----------------------------------------------------------------------------
(* The manager *)

Self == [queue |-> queue, current_index |-> current_index,
         is_playing |-> is_playing, loop_enabled |-> loop_enabled,
         disk |-> disk]

\* the fields of the manager without the file
Mem(self) == [queue |-> self.queue, current_index |-> self.current_index,
              is_playing |-> self.is_playing, loop_enabled |-> self.loop_enabled]

\* a method's outcome: state after the call, returned value, whether a file
\* write was attempted and failed
Out(self, r, f) == [self |-> self, ret |-> r, failed |-> f]

get_current_slideshow(self) ==
    IF 0 <= self.current_index /\ self.current_index < Len(self.queue)
    THEN self.queue[self.current_index + 1]
    ELSE None

\* load_queue whose validation is off by one
load_queue_clamps_early(self) ==
    IF self.disk.exists
    THEN LET n  == Len(self.disk.queue)
             ci == self.disk.current_index
         IN [self EXCEPT !.queue = self.disk.queue,
                         !.current_index = IF ci >= n - 1 THEN Max(0, n - 2) ELSE ci,
                         !.is_playing = self.disk.is_playing,
                         !.loop_enabled = self.disk.loop_enabled]
    ELSE self

\* load_queue that does not read loop_enabled
load_queue_drops_loop(self) ==
    IF self.disk.exists
    THEN LET n  == Len(self.disk.queue)
             ci == self.disk.current_index
         IN [self EXCEPT !.queue = self.disk.queue,
                         !.current_index = IF ci >= n THEN Max(0, n - 1) ELSE ci,
                         !.is_playing = self.disk.is_playing]
    ELSE self

load_queue(self) ==
    IF self.disk.exists
    THEN LET n  == Len(self.disk.queue)
             ci == self.disk.current_index
         IN [self EXCEPT !.queue = self.disk.queue,
                         !.current_index = IF ci >= n THEN Max(0, n - 1) ELSE ci,
                         !.is_playing = self.disk.is_playing,
                         !.loop_enabled = self.disk.loop_enabled]
    ELSE self

\* save_queue that resets the manager when the write fails
save_queue_failure_resets(self, ok) ==
    IF ok
    THEN Out(load_queue([self EXCEPT !.disk =
                 [exists |-> TRUE, queue |-> self.queue,
                  current_index |-> self.current_index,
                  is_playing |-> self.is_playing,
                  loop_enabled |-> self.loop_enabled]]), None, FALSE)
    ELSE Out([self EXCEPT !.queue = <<>>, !.current_index = 0,
                          !.is_playing = FALSE, !.loop_enabled = FALSE], None, TRUE)

\* ok: whether opening and writing the file succeeds
save_queue(self, ok) ==
    IF ok
    THEN Out(load_queue([self EXCEPT !.disk =
                 [exists |-> TRUE, queue |-> self.queue,
                  current_index |-> self.current_index,
                  is_playing |-> self.is_playing,
                  loop_enabled |-> self.loop_enabled]]), None, FALSE)
    ELSE Out(self, None, TRUE)

\* __init__: the defaults, then load_queue from the file
PresentationQueueManager(queue_file) ==
    load_queue([queue |-> <<>>, current_index |-> 0, is_playing |-> FALSE,
                loop_enabled |-> FALSE, disk |-> queue_file])

\* add_to_queue without the membership test
add_to_queue_unchecked(self, slideshow_id, ok) ==
    LET s == save_queue([self EXCEPT !.queue = Append(self.queue, slideshow_id)], ok)
    IN Out(s.self, PyBool(TRUE), s.failed)

add_to_queue(self, slideshow_id, ok) ==
    IF slideshow_id \notin Range(self.queue)
    THEN LET s == save_queue([self EXCEPT !.queue = Append(self.queue, slideshow_id)], ok)
         IN Out(s.self, PyBool(TRUE), s.failed)
    ELSE Out(self, PyBool(FALSE), FALSE)

\* remove_from_queue that forgets to shift the index down
remove_from_queue_no_shift(self, slideshow_id, ok) ==
    IF slideshow_id \in Range(self.queue)
    THEN LET removed_index == Index(self.queue, slideshow_id)
             q  == Pop(self.queue, removed_index)
             ci == IF removed_index = self.current_index
                      /\ self.current_index >= Len(q)
                   THEN Max(0, Len(q) - 1)
                   ELSE self.current_index
             s  == save_queue([self EXCEPT !.queue = q, !.current_index = ci], ok)
         IN Out(s.self, PyBool(TRUE), s.failed)
    ELSE Out(self, PyBool(FALSE), FALSE)

\* remove_from_queue with <= for < in the first comparison
remove_from_queue_le(self, slideshow_id, ok) ==
    IF slideshow_id \in Range(self.queue)
    THEN LET removed_index == Index(self.queue, slideshow_id)
             q  == Pop(self.queue, removed_index)
             ci == IF removed_index <= self.current_index
                   THEN self.current_index - 1
                   ELSE self.current_index
             s  == save_queue([self EXCEPT !.queue = q, !.current_index = ci], ok)
         IN Out(s.self, PyBool(TRUE), s.failed)
    ELSE Out(self, PyBool(FALSE), FALSE)

remove_from_queue(self, slideshow_id, ok) ==
    IF slideshow_id \in Range(self.queue)
    THEN LET removed_index == Index(self.queue, slideshow_id)
             q  == Pop(self.queue, removed_index)
             ci == IF removed_index < self.current_index
                   THEN self.current_index - 1
                   ELSE IF removed_index = self.current_index
                           /\ self.current_index >= Len(q)
                        THEN Max(0, Len(q) - 1)
                        ELSE self.current_index
             s  == save_queue([self EXCEPT !.queue = q, !.current_index = ci], ok)
         IN Out(s.self, PyBool(TRUE), s.failed)
    ELSE Out(self, PyBool(FALSE), FALSE)

\* reorder_queue that keeps the old index
reorder_queue_keeps_index(self, new_order, ok) ==
    IF Range(new_order) = Range(self.queue)
    THEN LET s == save_queue([self EXCEPT !.queue = new_order], ok)
         IN Out(s.self, PyBool(TRUE), s.failed)
    ELSE Out(self, PyBool(FALSE), FALSE)

reorder_queue(self, new_order, ok) ==
    IF Range(new_order) = Range(self.queue)
    THEN LET current_slideshow == get_current_slideshow(self)
             ci == IF current_slideshow # None /\ current_slideshow \in Range(new_order)
                   THEN Index(new_order, current_slideshow)
                   ELSE self.current_index
             s  == save_queue([self EXCEPT !.queue = new_order, !.current_index = ci], ok)
         IN Out(s.self, PyBool(TRUE), s.failed)
    ELSE Out(self, PyBool(FALSE), FALSE)

\* move_in_queue without the last elif: the index is not moved up
move_in_queue_no_shift_up(self, slideshow_id, new_position, ok) ==
    IF slideshow_id \notin Range(self.queue)
    THEN Out(self, PyBool(FALSE), FALSE)
    ELSE LET old_index == Index(self.queue, slideshow_id)
             popped == Pop(self.queue, old_index)
             np == Max(0, Min(new_position, Len(popped)))
             q  == Insert(popped, np, slideshow_id)
             c  == self.current_index
             ci == IF old_index = c THEN np
                   ELSE IF old_index < c /\ c <= np THEN c - 1
                   ELSE c
             s  == save_queue([self EXCEPT !.queue = q, !.current_index = ci], ok)
         IN Out(s.self, PyBool(TRUE), s.failed)

move_in_queue(self, slideshow_id, new_position, ok) ==
    IF slideshow_id \notin Range(self.queue)
    THEN Out(self, PyBool(FALSE), FALSE)
    ELSE LET old_index == Index(self.queue, slideshow_id)
             popped == Pop(self.queue, old_index)
             np == Max(0, Min(new_position, Len(popped)))
             q  == Insert(popped, np, slideshow_id)
             c  == self.current_index
             ci == IF old_index = c THEN np
                   ELSE IF old_index < c /\ c <= np THEN c - 1
                   ELSE IF np <= c /\ c < old_index THEN c + 1
                   ELSE c
             s  == save_queue([self EXCEPT !.queue = q, !.current_index = ci], ok)
         IN Out(s.self, PyBool(TRUE), s.failed)

clear_queue(self, ok) ==
    save_queue([self EXCEPT !.queue = <<>>, !.current_index = 0,
                            !.is_playing = FALSE], ok)

\* next_slideshow whose end-of-queue branch leaves is_playing alone
next_slideshow_keeps_playing(self, ok) ==
    IF self.queue = <<>>
    THEN Out(self, None, FALSE)
    ELSE IF self.current_index < Len(self.queue) - 1
    THEN LET m == [self EXCEPT !.current_index = self.current_index + 1]
             s == save_queue(m, ok)
         IN Out(s.self, get_current_slideshow(m), s.failed)
    ELSE IF self.loop_enabled
    THEN LET m == [self EXCEPT !.current_index = 0]
             s == save_queue(m, ok)
         IN Out(s.self, get_current_slideshow(m), s.failed)
    ELSE LET s == save_queue(self, ok)
         IN Out(s.self, None, s.failed)

\* next_slideshow whose wrap-around also stops playback
next_slideshow_wrap_stops(self, ok) ==
    IF self.queue = <<>>
    THEN Out(self, None, FALSE)
    ELSE IF self.current_index < Len(self.queue) - 1
    THEN LET m == [self EXCEPT !.current_index = self.current_index + 1]
             s == save_queue(m, ok)
         IN Out(s.self, get_current_slideshow(m), s.failed)
    ELSE IF self.loop_enabled
    THEN LET m == [self EXCEPT !.current_index = 0, !.is_playing = FALSE]
             s == save_queue(m, ok)
         IN Out(s.self, get_current_slideshow(m), s.failed)
    ELSE LET s == save_queue([self EXCEPT !.is_playing = FALSE], ok)
         IN Out(s.self, None, s.failed)

\* next_slideshow that takes the end of the queue one item early
next_slideshow_early_end(self, ok) ==
    IF self.queue = <<>>
    THEN Out(self, None, FALSE)
    ELSE IF self.current_index < Len(self.queue) - 2
    THEN LET m == [self EXCEPT !.current_index = self.current_index + 1]
             s == save_queue(m, ok)
         IN Out(s.self, get_current_slideshow(m), s.failed)
    ELSE IF self.loop_enabled
    THEN LET m == [self EXCEPT !.current_index = 0]
             s == save_queue(m, ok)
         IN Out(s.self, get_current_slideshow(m), s.failed)
    ELSE LET s == save_queue([self EXCEPT !.is_playing = FALSE], ok)
         IN Out(s.self, None, s.failed)

next_slideshow(self, ok) ==
    IF self.queue = <<>>
    THEN Out(self, None, FALSE)
    ELSE IF self.current_index < Len(self.queue) - 1
    THEN LET m == [self EXCEPT !.current_index = self.current_index + 1]
             s == save_queue(m, ok)
         IN Out(s.self, get_current_slideshow(m), s.failed)
    ELSE IF self.loop_enabled
    THEN LET m == [self EXCEPT !.current_index = 0]
             s == save_queue(m, ok)
         IN Out(s.self, get_current_slideshow(m), s.failed)
    ELSE LET s == save_queue([self EXCEPT !.is_playing = FALSE], ok)
         IN Out(s.self, None, s.failed)

\* previous_slideshow that stops playback at the start, as next does at the end
previous_slideshow_stops(self, ok) ==
    IF self.queue = <<>>
    THEN Out(self, None, FALSE)
    ELSE IF self.current_index > 0
    THEN LET m == [self EXCEPT !.current_index = self.current_index - 1]
             s == save_queue(m, ok)
         IN Out(s.self, get_current_slideshow(m), s.failed)
    ELSE IF self.loop_enabled
    THEN LET m == [self EXCEPT !.current_index = Len(self.queue) - 1]
             s == save_queue(m, ok)
         IN Out(s.self, get_current_slideshow(m), s.failed)
    ELSE LET s == save_queue([self EXCEPT !.is_playing = FALSE], ok)
         IN Out(s.self, None, s.failed)

previous_slideshow(self, ok) ==
    IF self.queue = <<>>
    THEN Out(self, None, FALSE)
    ELSE IF self.current_index > 0
    THEN LET m == [self EXCEPT !.current_index = self.current_index - 1]
             s == save_queue(m, ok)
         IN Out(s.self, get_current_slideshow(m), s.failed)
    ELSE IF self.loop_enabled
    THEN LET m == [self EXCEPT !.current_index = Len(self.queue) - 1]
             s == save_queue(m, ok)
         IN Out(s.self, get_current_slideshow(m), s.failed)
    ELSE Out(self, None, FALSE)

\* start_queue that does not reset the index
start_queue_keeps_index(self, ok) ==
    IF self.queue = <<>>
    THEN Out(self, None, FALSE)
    ELSE LET s == save_queue([self EXCEPT !.is_playing = TRUE], ok)
         IN Out(s.self, get_current_slideshow(s.self), s.failed)

start_queue(self, ok) ==
    IF self.queue = <<>>
    THEN Out(self, None, FALSE)
    ELSE LET s == save_queue([self EXCEPT !.current_index = 0,
                                          !.is_playing = TRUE], ok)
         IN Out(s.self, get_current_slideshow(s.self), s.failed)

\* stop_queue that also rewinds the queue
stop_queue_rewinds(self, ok) ==
    save_queue([self EXCEPT !.is_playing = FALSE, !.current_index = 0], ok)

stop_queue(self, ok) ==
    save_queue([self EXCEPT !.is_playing = FALSE], ok)

toggle_loop(self, ok) ==
    LET s == save_queue([self EXCEPT !.loop_enabled = ~self.loop_enabled], ok)
    IN Out(s.self, PyBool(s.self.loop_enabled), s.failed)

\* get_queue_state: the queue list is copied
get_queue_state(self) ==
    [queue |-> self.queue,
     current_index |-> self.current_index,
     current_slideshow |-> get_current_slideshow(self),
     is_playing |-> self.is_playing,
     loop_enabled |-> self.loop_enabled,
     queue_length |-> Len(self.queue)]

----------------------------------------------------------------------------
(* The WebSocket manager *)

\* connection objects; each connects at most once
Conns == {"c1", "c2", "c3"}

\* decks of the slideshows directory: identifier and number of slides
NoDeck == [id |-> None, slides |-> 0]

Decks == <<[id |-> "A", slides |-> 2], [id |-> "B", slides |-> 0]>>

\* what discover_slideshows can return
Discoveries == {<<>>, Decks}

\* the endpoints that send commands; the others only display
Controllers == {"c1", "c2"}

\* params of a command: params.get("slideshow_id") or params.get("id"),
\* whether params has "slide", and params.get("slide")
SlideArgs == -1..2

Params == [id : Ids \cup {None}, has_slide : BOOLEAN, slide : SlideArgs]

NoParams == [id |-> None, has_slide |-> FALSE, slide |-> 0]

Frame(command, params) == [command |-> command, params |-> params]

\* inbound frames; "malformed" is a text json.loads or data.get rejects,
\* "bogus" a command name handle_command does not know
Frames ==
    {Frame(command, NoParams) :
        command \in {"refresh_slideshows", "play", "pause", "next_slide", "prev_slide",
                     "get_client_info", "show_clients", "bogus", "malformed"}}
    \cup {Frame("load_slideshow", [NoParams EXCEPT !.id = i]) : i \in Ids \cup {None}}
    \cup {Frame("set_slide", params) :
             params \in {NoParams} \cup {[NoParams EXCEPT !.has_slide = TRUE, !.slide = i] :
                                          i \in SlideArgs}}

NoFrame == [type |-> "none"]

\* Python dicts as functions: d[k] = v, del d[k], no keys
SetItem(d, k, v) == [x \in DOMAIN d \cup {k} |-> IF x = k THEN v ELSE d[x]]

DelItem(d, k) == [x \in DOMAIN d \ {k} |-> d[x]]

EmptyDict == [x \in {} |-> 0]

\* datetime.datetime.now() as a stamp: the admission stamps connect_time,
\* the k-th frame the server reads stamps k
connect_time == 0

NoTask == [message |-> NoFrame, todo |-> {}]

\* WebSocketManager.__init__, then app.py's update_slideshows_list(found)
InitSockets(found) ==
    /\ clients = {}
    /\ client_info = EmptyDict
    /\ current_state = [current_slideshow |-> NoDeck, current_slide |-> 0,
                        slideshows |-> found, playing |-> FALSE]
    /\ transport = [c \in Conns |-> "unopened"]
    /\ pc = [c \in Conns |-> "new"]
    /\ task = [c \in Conns |-> NoTask]
    /\ last = [c \in Conns |-> NoFrame]
    /\ received = 0

\* the envelope of broadcast_state
state_update(cs) ==
    [type |-> "state_update", current_slideshow |-> cs.current_slideshow,
     current_slide |-> cs.current_slide, playing |-> cs.playing]

\* the envelope of broadcast_slideshows_list
slideshows_update(cs) ==
    [type |-> "slideshows_update", slideshows |-> cs.slideshows]

hello_message_first_slide(cs) ==
    [type |-> "state_update", current_slideshow |-> cs.current_slideshow,
     current_slide |-> 0, playing |-> cs.playing]

\* the first frame handle_client sends
hello_message(cs) ==
    [type |-> "state_update", current_slideshow |-> cs.current_slideshow,
     current_slide |-> cs.current_slide, playing |-> cs.playing]

\* SlideShowManager.load_slideshow_by_id: the first deck with that id
load_slideshow_by_id(slideshow_id, slideshows) ==
    IF \E i \in 1..Len(slideshows) : slideshows[i].id = slideshow_id
    THEN slideshows[CHOOSE i \in 1..Len(slideshows) :
                        /\ slideshows[i].id = slideshow_id
                        /\ \A j \in 1..(i - 1) : slideshows[j].id # slideshow_id]
    ELSE NoDeck

\* a branch's outcome: the state, the broadcast it awaits, whether it raised
Did(cs, b, raised) == [state |-> cs, bcast |-> b, raised |-> raised]

cmd_refresh_slideshows(cs, found) ==
    Did([cs EXCEPT !.slideshows = found], "slideshows", FALSE)

cmd_load_slideshow_keeps_slide(cs, params) ==
    LET slideshow == load_slideshow_by_id(params.id, cs.slideshows)
    IN IF slideshow # NoDeck
       THEN Did([cs EXCEPT !.current_slideshow = slideshow,
                           !.playing = FALSE], "state", FALSE)
       ELSE Did(cs, "none", FALSE)

cmd_load_slideshow(cs, params) ==
    LET slideshow == load_slideshow_by_id(params.id, cs.slideshows)
    IN IF slideshow # NoDeck
       THEN Did([cs EXCEPT !.current_slideshow = slideshow,
                           !.current_slide = 0,
                           !.playing = FALSE], "state", FALSE)
       ELSE Did(cs, "none", FALSE)

cmd_set_slide_inclusive(cs, params) ==
    IF cs.current_slideshow = NoDeck
    THEN Did(cs, "none", FALSE)
    ELSE IF ~params.has_slide
    THEN Did(cs, "none", TRUE)
    ELSE IF 0 <= params.slide /\ params.slide <= cs.current_slideshow.slides
    THEN Did([cs EXCEPT !.current_slide = params.slide], "state", FALSE)
    ELSE Did(cs, "none", FALSE)

\* 0 <= None raises TypeError when a deck is active
cmd_set_slide(cs, params) ==
    IF cs.current_slideshow = NoDeck
    THEN Did(cs, "none", FALSE)
    ELSE IF ~params.has_slide
    THEN Did(cs, "none", TRUE)
    ELSE IF 0 <= params.slide /\ params.slide < cs.current_slideshow.slides
    THEN Did([cs EXCEPT !.current_slide = params.slide], "state", FALSE)
    ELSE Did(cs, "none", FALSE)

cmd_play_needs_deck(cs) ==
    IF cs.current_slideshow = NoDeck
    THEN Did(cs, "none", FALSE)
    ELSE Did([cs EXCEPT !.playing = TRUE], "state", FALSE)

cmd_play(cs) == Did([cs EXCEPT !.playing = TRUE], "state", FALSE)

cmd_pause(cs) == Did([cs EXCEPT !.playing = FALSE], "state", FALSE)

cmd_next_slide_halts(cs) ==
    IF cs.current_slideshow = NoDeck
    THEN Did(cs, "none", FALSE)
    ELSE LET total_slides == cs.current_slideshow.slides
         IN IF total_slides = 0
            THEN Did(cs, "none", TRUE)
            ELSE Did([cs EXCEPT !.current_slide = Min(cs.current_slide + 1, total_slides - 1)],
                     "state", FALSE)

\* x % 0 raises ZeroDivisionError
cmd_next_slide(cs) ==
    IF cs.current_slideshow = NoDeck
    THEN Did(cs, "none", FALSE)
    ELSE LET total_slides == cs.current_slideshow.slides
         IN IF total_slides = 0
            THEN Did(cs, "none", TRUE)
            ELSE Did([cs EXCEPT !.current_slide = (cs.current_slide + 1) % total_slides],
                     "state", FALSE)

cmd_prev_slide(cs) ==
    IF cs.current_slideshow = NoDeck
    THEN Did(cs, "none", FALSE)
    ELSE LET total_slides == cs.current_slideshow.slides
         IN IF total_slides = 0
            THEN Did(cs, "none", TRUE)
            ELSE Did([cs EXCEPT !.current_slide = (cs.current_slide - 1) % total_slides],
                     "state", FALSE)

handle_command_echoes(cs, command, params, found) ==
    CASE command = "refresh_slideshows" -> cmd_refresh_slideshows(cs, found)
      [] command = "load_slideshow" -> cmd_load_slideshow(cs, params)
      [] command = "set_slide" -> cmd_set_slide(cs, params)
      [] command = "play" -> cmd_play(cs)
      [] command = "pause" -> cmd_pause(cs)
      [] command = "next_slide" -> cmd_next_slide(cs)
      [] command = "prev_slide" -> cmd_prev_slide(cs)
      [] OTHER -> Did(cs, "state", FALSE)

\* found: what discover_slideshows returns if it is called
handle_command(cs, command, params, found) ==
    CASE command = "refresh_slideshows" -> cmd_refresh_slideshows(cs, found)
      [] command = "load_slideshow" -> cmd_load_slideshow(cs, params)
      [] command = "set_slide" -> cmd_set_slide(cs, params)
      [] command = "play" -> cmd_play(cs)
      [] command = "pause" -> cmd_pause(cs)
      [] command = "next_slide" -> cmd_next_slide(cs)
      [] command = "prev_slide" -> cmd_prev_slide(cs)
      [] OTHER -> Did(cs, "none", FALSE)

\* the body of handle_client's receive loop for one inbound frame: both
\* except branches log and go on with the loop
handle_message(cs, command, params, found) ==
    IF command = "malformed"
    THEN Did(cs, "none", TRUE)
    ELSE handle_command(cs, command, params, found)

send_evicts(net, t, message) ==
    IF transport[t] = "open"
    THEN [net EXCEPT !.last[t] = message, !.clients = @ \ {t}]
    ELSE [net EXCEPT !.clients = @ \ {t}]

\* await client.send(message) inside a broadcast: the frame is written
\* when send is called; a closed transport raises and the client is
\* discarded from the client set
send(net, t, message) ==
    IF transport[t] = "open"
    THEN [net EXCEPT !.last[t] = message]
    ELSE [net EXCEPT !.clients = @ \ {t}]

Net == [clients |-> clients, last |-> last]

SetNet(net) ==
    /\ clients' = net.clients
    /\ last' = net.last

\* handle_client up to its first await: the session is registered and the
\* first frame is sent; alive: whether the peer is still connected
Admit(c) ==
    /\ pc[c] = "new"
    /\ \E alive \in BOOLEAN :
          IF alive
          THEN /\ transport' = [transport EXCEPT ![c] = "open"]
               /\ client_info' = SetItem(client_info, c, [last_activity |-> connect_time])
               /\ clients' = clients \cup {c}
               /\ last' = [last EXCEPT ![c] = hello_message(current_state)]
               /\ pc' = [pc EXCEPT ![c] = "hello"]
          ELSE /\ transport' = [transport EXCEPT ![c] = "closed"]
               /\ pc' = [pc EXCEPT ![c] = "done"]
               /\ UNCHANGED <<client_info, clients, last>>
    /\ UNCHANGED <<current_state, task, received>>
    /\ UNCHANGED qvars

\* the first send returns and the task waits in async for
HelloDone(c) ==
    /\ pc[c] = "hello"
    /\ transport[c] = "open"
    /\ pc' = [pc EXCEPT ![c] = "recv"]
    /\ UNCHANGED <<clients, client_info, current_state, transport, task, last, received>>
    /\ UNCHANGED qvars

StartBroadcast_resends(c, message) ==
    \E t \in clients :
        /\ SetNet(send(Net, t, message))
        /\ task' = [task EXCEPT ![c] = [message |-> message, todo |-> clients]]
        /\ pc' = [pc EXCEPT ![c] = "bcast"]

\* broadcast_state / broadcast_slideshows_list up to the first await: the
\* envelope, the copy of the client set, the first send
StartBroadcast(c, message) ==
    \E t \in clients :
        /\ SetNet(send(Net, t, message))
        /\ task' = [task EXCEPT ![c] = [message |-> message, todo |-> clients \ {t}]]
        /\ pc' = [pc EXCEPT ![c] = "bcast"]

Read_while_broadcasting(c, frame, found) ==
    /\ c \in Controllers
    /\ pc[c] \in {"recv", "bcast"}
    /\ transport[c] = "open"
    /\ received < MaxFrames
    /\ received' = received + 1
    /\ LET r == handle_message(current_state, frame.command, frame.params, found)
       IN /\ current_state' = r.state
          /\ IF r.bcast = "none" \/ clients = {}
             THEN UNCHANGED <<clients, last, pc, task>>
             ELSE StartBroadcast(c, IF r.bcast = "state"
                                    THEN state_update(r.state)
                                    ELSE slideshows_update(r.state))
    /\ client_info' = IF c \in DOMAIN client_info
                      THEN [client_info EXCEPT ![c].last_activity = received']
                      ELSE client_info
    /\ UNCHANGED transport

\* the loop body of handle_client for one inbound frame: handle_command
\* up to the first await of its broadcast
Read(c, frame, found) ==
    /\ c \in Controllers
    /\ pc[c] = "recv"
    /\ transport[c] = "open"
    /\ received < MaxFrames
    /\ received' = received + 1
    /\ LET r == handle_message(current_state, frame.command, frame.params, found)
       IN /\ current_state' = r.state
          /\ IF r.bcast = "none" \/ clients = {}
             THEN UNCHANGED <<clients, last, pc, task>>
             ELSE StartBroadcast(c, IF r.bcast = "state"
                                    THEN state_update(r.state)
                                    ELSE slideshows_update(r.state))
    /\ client_info' = IF c \in DOMAIN client_info
                      THEN [client_info EXCEPT ![c].last_activity = received']
                      ELSE client_info
    /\ UNCHANGED transport

\* one inbound frame
Receive(c) ==
    /\ \E frame \in Frames, found \in Discoveries : Read(c, frame, found)
    /\ UNCHANGED qvars

BroadcastStep_skips(c) ==
    /\ pc[c] = "bcast"
    /\ IF task[c].todo = {}
       THEN /\ pc' = [pc EXCEPT ![c] = "recv"]
            /\ task' = [task EXCEPT ![c] = NoTask]
            /\ UNCHANGED <<clients, last>>
       ELSE \E t \in task[c].todo :
               /\ task' = [task EXCEPT ![c].todo = @ \ {t}]
               /\ UNCHANGED <<clients, last, pc>>
    /\ UNCHANGED <<client_info, current_state, transport, received>>
    /\ UNCHANGED qvars

\* a send of the broadcast returns: the loop sends to the next client of
\* clients_copy, or is over and the task waits in async for again
BroadcastStep(c) ==
    /\ pc[c] = "bcast"
    /\ IF task[c].todo = {}
       THEN /\ pc' = [pc EXCEPT ![c] = "recv"]
            /\ task' = [task EXCEPT ![c] = NoTask]
            /\ UNCHANGED <<clients, last>>
       ELSE \E t \in task[c].todo :
               /\ SetNet(send(Net, t, task[c].message))
               /\ task' = [task EXCEPT ![c].todo = @ \ {t}]
               /\ UNCHANGED pc
    /\ UNCHANGED <<client_info, current_state, transport, received>>
    /\ UNCHANGED qvars

\* the peer disconnects or the connection drops: the endpoint is gone and
\* shows nothing any more
Close(c) ==
    /\ transport[c] = "open"
    /\ transport' = [transport EXCEPT ![c] = "closed"]
    /\ last' = [last EXCEPT ![c] = NoFrame]
    /\ UNCHANGED <<clients, client_info, current_state, pc, task, received>>
    /\ UNCHANGED qvars

Cleanup_keeps_record(c) ==
    /\ pc[c] \in {"hello", "recv"}
    /\ transport[c] = "closed"
    /\ clients' = clients \ {c}
    /\ pc' = [pc EXCEPT ![c] = "done"]
    /\ UNCHANGED <<client_info, current_state, transport, task, last, received>>
    /\ UNCHANGED qvars

\* the receive loop ends on the closed connection: the finally block
Cleanup(c) ==
    /\ pc[c] \in {"hello", "recv"}
    /\ transport[c] = "closed"
    /\ client_info' = IF c \in DOMAIN client_info THEN DelItem(client_info, c) ELSE client_info
    /\ clients' = clients \ {c}
    /\ pc' = [pc EXCEPT ![c] = "done"]
    /\ UNCHANGED <<current_state, transport, task, last, received>>
    /\ UNCHANGED qvars

----------------------------------------------------------------------------
(* Calls *)

\* one call of a method: the manager takes the outcome's state; call, ret
\* and failed record which method it was, what it returned and whether it
\* logged "Error saving queue"
Call(op, out) ==
    /\ queue' = out.self.queue
    /\ current_index' = out.self.current_index
    /\ is_playing' = out.self.is_playing
    /\ loop_enabled' = out.self.loop_enabled
    /\ disk' = out.self.disk
    /\ call' = op
    /\ ret' = out.ret
    /\ failed' = out.failed
    /\ UNCHANGED wsvars

CallAdd ==
    \E id \in Ids : Call("add", add_to_queue(Self, id, TRUE))

CallRemove ==
    \E id \in Ids : Call("remove", remove_from_queue(Self, id, TRUE))

CallReorder ==
    \E new_order \in NewOrders : Call("reorder", reorder_queue(Self, new_order, TRUE))

CallMove ==
    \E id \in Ids, pos \in Positions : Call("move", move_in_queue(Self, id, pos, TRUE))

CallClear == Call("clear", clear_queue(Self, TRUE))

CallNext == Call("next", next_slideshow(Self, TRUE))

CallPrevious == Call("previous", previous_slideshow(Self, TRUE))

CallStart == Call("start", start_queue(Self, TRUE))

CallStop == Call("stop", stop_queue(Self, TRUE))

CallToggleLoop == Call("toggle_loop", toggle_loop(Self, TRUE))

\* __init__ with no queue file: the defaults, load_queue finds nothing
InitQueue ==
    /\ queue = <<>>
    /\ current_index = 0
    /\ is_playing = FALSE
    /\ loop_enabled = FALSE
    /\ disk = NoFile
    /\ call = "init"
    /\ ret = None
    /\ failed = FALSE

Init == InitQueue /\ InitSockets(<<>>)

Next ==
    \/ CallAdd
    \/ CallRemove
    \/ CallReorder
    \/ CallMove
    \/ CallClear
    \/ CallNext
    \/ CallPrevious
    \/ CallStart
    \/ CallStop
    \/ CallToggleLoop

Spec == Init /\ [][Next]_vars

----------------------------------------------------------------------------
(* File writes that may fail, and restarts *)

DiskIds == {"A", "B"}

DiskAdd ==
    \E id \in DiskIds, ok \in BOOLEAN : Call("add", add_to_queue(Self, id, ok))

DiskRemove ==
    \E id \in DiskIds, ok \in BOOLEAN : Call("remove", remove_from_queue(Self, id, ok))

DiskClear == \E ok \in BOOLEAN : Call("clear", clear_queue(Self, ok))

DiskNext == \E ok \in BOOLEAN : Call("next", next_slideshow(Self, ok))

DiskPrevious == \E ok \in BOOLEAN : Call("previous", previous_slideshow(Self, ok))

DiskStart == \E ok \in BOOLEAN : Call("start", start_queue(Self, ok))

DiskStop == \E ok \in BOOLEAN : Call("stop", stop_queue(Self, ok))

DiskToggleLoop == \E ok \in BOOLEAN : Call("toggle_loop", toggle_loop(Self, ok))

\* the process ends and app.py constructs a new manager on the same file
DiskRestart == Call("restart", Out(PresentationQueueManager(disk), None, FALSE))

NextDisk ==
    \/ DiskAdd
    \/ DiskRemove
    \/ DiskClear
    \/ DiskNext
    \/ DiskPrevious
    \/ DiskStart
    \/ DiskStop
    \/ DiskToggleLoop
    \/ DiskRestart

SpecDisk == Init /\ [][NextDisk]_vars

----------------------------------------------------------------------------
(* The constructor on an arbitrary queue file *)

\* current_index values a queue file may hold
FileIndexes == -2..(MaxOrderLen + 1)

QueueFiles ==
    {NoFile} \cup
    [exists : {TRUE}, queue : SeqsUpTo(MaxOrderLen), current_index : FileIndexes,
     is_playing : BOOLEAN, loop_enabled : BOOLEAN]

\* __init__ after the defaults are assigned, before load_queue
InitLoad ==
    /\ queue = <<>>
    /\ current_index = 0
    /\ is_playing = FALSE
    /\ loop_enabled = FALSE
    /\ disk \in QueueFiles
    /\ call = "construct"
    /\ ret = None
    /\ failed = FALSE
    /\ InitSockets(<<>>)

CallLoad == Call("load", Out(load_queue(Self), None, FALSE))

NextLoad == CallLoad

SpecLoad == InitLoad /\ [][NextLoad]_vars

\* the connections of the WebSocket server, the queue left alone
InitWS == InitQueue /\ \E found \in Discoveries : InitSockets(found)

NextWS ==
    \E c \in Conns :
        \/ Admit(c)
        \/ HelloDone(c)
        \/ Receive(c)
        \/ BroadcastStep(c)
        \/ Close(c)
        \/ Cleanup(c)

SpecWS == InitWS /\ [][NextWS]_vars

----------------------------------------------------------------------------
(* One controller and one display, the frames on record *)

Sessions == {"c1", "c3"}

\* one inbound frame; call, ret and failed tell the command, the broadcast
\* it asked for and whether it raised
Observed(c) ==
    \E frame \in Frames, found \in Discoveries :
        LET r == handle_message(current_state, frame.command, frame.params, found)
        IN /\ Read(c, frame, found)
           /\ call' = frame.command
           /\ ret' = r.bcast
           /\ failed' = r.raised
           /\ UNCHANGED <<queue, current_index, is_playing, loop_enabled, disk>>

NextSession ==
    \E c \in Sessions :
        \/ Admit(c)
        \/ HelloDone(c)
        \/ Observed(c)
        \/ BroadcastStep(c)
        \/ Close(c)
        \/ Cleanup(c)

SpecSession == InitWS /\ [][NextSession]_vars

----------------------------------------------------------------------------
(* The queue requests of the HTTP server (src/src/http_server.py) *)

\* data.get('slideshow_id') of a request body: an id or None
HttpIds == DiskIds \cup {None}

\* data.get('queue_order') of a request body: a list, possibly empty
HttpOrders == SeqsUpTo(MaxOrderLen)

\* a handler's outcome: the queue manager after it, what the queue method
\* returned (None if it was not called), the status of the response and
\* the "success" of its JSON body (None when the response is an error)
Answer(self, returned, status, success) ==
    [self |-> self, returned |-> returned, status |-> status, success |-> success]

\* self.websocket_manager.broadcast_queue_state_sync(...): the class
\* WebSocketManager defines no such attribute, the expression raises
\* AttributeError, which the handler's except answers with send_error(500)
broadcast_queue_state_sync(self, returned) == Answer(self, returned, 500, None)

handle_queue_add(self, slideshow_id, ok) ==
    IF slideshow_id = None
    THEN Answer(self, None, 400, None)
    ELSE LET out == add_to_queue(self, slideshow_id, ok)
         IN IF out.ret = PyBool(TRUE)
            THEN broadcast_queue_state_sync(out.self, out.ret)
            ELSE Answer(out.self, out.ret, 200, out.ret)

handle_queue_remove(self, slideshow_id, ok) ==
    IF slideshow_id = None
    THEN Answer(self, None, 400, None)
    ELSE LET out == remove_from_queue(self, slideshow_id, ok)
         IN IF out.ret = PyBool(TRUE)
            THEN broadcast_queue_state_sync(out.self, out.ret)
            ELSE Answer(out.self, out.ret, 200, out.ret)

handle_queue_reorder(self, new_order, ok) ==
    IF new_order = <<>>
    THEN Answer(self, None, 400, None)
    ELSE LET out == reorder_queue(self, new_order, ok)
         IN IF out.ret = PyBool(TRUE)
            THEN broadcast_queue_state_sync(out.self, out.ret)
            ELSE Answer(out.self, out.ret, 200, out.ret)

\* the lines after the queue broadcast (599-605, 648-653, 677-682) are
\* never reached
handle_queue_start(self, ok) ==
    LET out == start_queue(self, ok)
    IN broadcast_queue_state_sync(out.self, out.ret)

handle_queue_next(self, ok) ==
    LET out == next_slideshow(self, ok)
    IN broadcast_queue_state_sync(out.self, out.ret)

handle_queue_previous(self, ok) ==
    LET out == previous_slideshow(self, ok)
    IN broadcast_queue_state_sync(out.self, out.ret)

handle_queue_stop(self, ok) ==
    LET out == stop_queue(self, ok)
    IN broadcast_queue_state_sync(out.self, out.ret)

handle_queue_toggle_loop(self, ok) ==
    LET out == toggle_loop(self, ok)
    IN broadcast_queue_state_sync(out.self, out.ret)

\* one request served by the HTTP thread; nothing of the WebSocket manager
\* is read or written
Request(action, answer) ==
    /\ queue' = answer.self.queue
    /\ current_index' = answer.self.current_index
    /\ is_playing' = answer.self.is_playing
    /\ loop_enabled' = answer.self.loop_enabled
    /\ disk' = answer.self.disk
    /\ call' = action
    /\ ret' = [returned |-> answer.returned, status |-> answer.status,
               success |-> answer.success]
    /\ failed' = FALSE
    /\ UNCHANGED wsvars

PostAdd == \E slideshow_id \in HttpIds : Request("add", handle_queue_add(Self, slideshow_id, TRUE))

PostRemove ==
    \E slideshow_id \in HttpIds : Request("remove", handle_queue_remove(Self, slideshow_id, TRUE))

PostReorder ==
    \E new_order \in HttpOrders : Request("reorder", handle_queue_reorder(Self, new_order, TRUE))

PostStart == Request("start", handle_queue_start(Self, TRUE))

PostNext == Request("next", handle_queue_next(Self, TRUE))

PostPrevious == Request("previous", handle_queue_previous(Self, TRUE))

PostStop == Request("stop", handle_queue_stop(Self, TRUE))

PostToggleLoop == Request("toggle_loop", handle_queue_toggle_loop(Self, TRUE))

\* the catalog holds the decks the requests name
InitHTTP ==
    /\ InitSockets(Decks)
    /\ queue = <<>>
    /\ current_index = 0
    /\ is_playing = FALSE
    /\ loop_enabled = FALSE
    /\ disk = NoFile
    /\ call = "init"
    /\ ret = [returned |-> None, status |-> 0, success |-> None]
    /\ failed = FALSE

NextHTTP ==
    \/ PostAdd
    \/ PostRemove
    \/ PostReorder
    \/ PostStart
    \/ PostNext
    \/ PostPrevious
    \/ PostStop
    \/ PostToggleLoop
    \/ \E c \in Sessions : Admit(c) \/ HelloDone(c)

SpecHTTP == InitHTTP /\ [][NextHTTP]_vars

----------------------------------------------------------------------------
(* The two threads, store by store.  The event loop runs the connection    *)
(* tasks, one at a time between awaits; the HTTP server thread serves one  *)
(* request at a time; the interpreter switches between the two threads     *)
(* between any two statements.  pc[c] tells how far task c is inside a     *)
(* command, call which request the HTTP thread is inside, ret the list     *)
(* that request holds.                                                     *)

\* positions of a task between the stores of a command
InsideCommand == {"refresh", "load:1", "load:2"}

\* the event loop is not in the middle of a task's step
LoopIdle == \A c \in Conns : pc[c] \notin InsideCommand

\* a frame is read and its command is about to run
Enter(c) ==
    /\ c \in Controllers
    /\ pc[c] = "recv"
    /\ transport[c] = "open"
    /\ LoopIdle
    /\ received < MaxFrames
    /\ received' = received + 1
    /\ client_info' = IF c \in DOMAIN client_info
                      THEN [client_info EXCEPT ![c].last_activity = received']
                      ELSE client_info

\* refresh_slideshows: discover_slideshows() has returned found
RefreshDiscover(c) ==
    /\ Enter(c)
    /\ \E found \in Discoveries :
          task' = [task EXCEPT ![c] = [message |-> slideshows_update([slideshows |-> found]),
                                       todo |-> {}]]
    /\ pc' = [pc EXCEPT ![c] = "refresh"]
    /\ UNCHANGED <<clients, current_state, transport, last>>
    /\ UNCHANGED qvars

\* refresh_slideshows: the store of the list, then broadcast_slideshows_list
RefreshStore(c) ==
    /\ pc[c] = "refresh"
    /\ current_state' = [current_state EXCEPT !.slideshows = task[c].message.slideshows]
    /\ IF clients = {}
       THEN /\ pc' = [pc EXCEPT ![c] = "recv"]
            /\ task' = [task EXCEPT ![c] = NoTask]
            /\ UNCHANGED <<clients, last>>
       ELSE StartBroadcast(c, slideshows_update(current_state'))
    /\ UNCHANGED <<client_info, transport, received>>
    /\ UNCHANGED qvars

\* load_slideshow with an id of the catalog: the first store
LoadDeck(c) ==
    /\ Enter(c)
    /\ \E id \in Ids :
          LET slideshow == load_slideshow_by_id(id, current_state.slideshows)
          IN /\ slideshow # NoDeck
             /\ current_state' = [current_state EXCEPT !.current_slideshow = slideshow]
    /\ pc' = [pc EXCEPT ![c] = "load:1"]
    /\ UNCHANGED <<clients, transport, task, last>>
    /\ UNCHANGED qvars

\* the second store
LoadSlide(c) ==
    /\ pc[c] = "load:1"
    /\ current_state' = [current_state EXCEPT !.current_slide = 0]
    /\ pc' = [pc EXCEPT ![c] = "load:2"]
    /\ UNCHANGED <<clients, client_info, transport, task, last, received>>
    /\ UNCHANGED qvars

\* the third store, then broadcast_state
LoadPlaying(c) ==
    /\ pc[c] = "load:2"
    /\ current_state' = [current_state EXCEPT !.playing = FALSE]
    /\ IF clients = {}
       THEN /\ pc' = [pc EXCEPT ![c] = "recv"]
            /\ UNCHANGED <<clients, last, task>>
       ELSE StartBroadcast(c, state_update(current_state'))
    /\ UNCHANGED <<client_info, transport, received>>
    /\ UNCHANGED qvars

\* the other commands that store once, then broadcast_state
StoreOnce(c) ==
    /\ Enter(c)
    /\ \E command \in {"play", "pause"} :
          current_state' = handle_command(current_state, command, NoParams, <<>>).state
    /\ IF clients = {}
       THEN UNCHANGED <<clients, last, task, pc>>
       ELSE StartBroadcast(c, state_update(current_state'))
    /\ UNCHANGED transport
    /\ UNCHANGED qvars

\* a send of a broadcast returns while no task is inside a command
LoopBroadcastStep(c) == LoopIdle /\ BroadcastStep(c)

\* a connection is accepted while no task is inside a command
LoopAdmit(c) == LoopIdle /\ Admit(c)

LoopHelloDone(c) == LoopIdle /\ HelloDone(c)

\* GET /api/slideshows on the HTTP thread: discover_slideshows() has
\* returned and update_slideshows_list is entered
GetSlideshowsDiscover ==
    /\ call \in {"init", "idle"}
    /\ call' = "update_slideshows_list"
    /\ \E found \in Discoveries : ret' = found
    /\ UNCHANGED <<queue, current_index, is_playing, loop_enabled, disk, failed>>
    /\ UNCHANGED wsvars

\* update_slideshows_list: the store of the list; the response is written
GetSlideshowsStore ==
    /\ call = "update_slideshows_list"
    /\ current_state' = [current_state EXCEPT !.slideshows = ret]
    /\ call' = "idle"
    /\ UNCHANGED <<queue, current_index, is_playing, loop_enabled, disk, ret, failed>>
    /\ UNCHANGED <<clients, client_info, transport, pc, task, last, received>>

InitThreads ==
    /\ \E found \in Discoveries : InitSockets(found) /\ ret = found
    /\ queue = <<>>
    /\ current_index = 0
    /\ is_playing = FALSE
    /\ loop_enabled = FALSE
    /\ disk = NoFile
    /\ call = "init"
    /\ failed = FALSE

NextThreads ==
    \/ GetSlideshowsDiscover
    \/ GetSlideshowsStore
    \/ \E c \in Sessions :
          \/ LoopAdmit(c)
          \/ LoopHelloDone(c)
          \/ RefreshDiscover(c)
          \/ RefreshStore(c)
          \/ LoadDeck(c)
          \/ LoadSlide(c)
          \/ LoadPlaying(c)
          \/ StoreOnce(c)
          \/ LoopBroadcastStep(c)

SpecThreads == InitThreads /\ [][NextThreads]_vars

----------------------------------------------------------------------------
(* The dispatcher alone *)

\* what discover_slideshows can return: also a deck of 1..MaxSlides slides
CmdDiscoveries ==
    Discoveries \cup {<<[id |-> "C", slides |-> n]>> : n \in 1..MaxSlides}

InitCmd == InitQueue /\ \E found \in CmdDiscoveries : InitSockets(found)

Dispatch_drives_queue(frame, found) ==
    LET r == handle_message(current_state, frame.command, frame.params, found)
    IN /\ current_state' = r.state
       /\ call' = frame.command
       /\ ret' = r.bcast
       /\ failed' = r.raised
       /\ is_playing' = r.state.playing
       /\ UNCHANGED <<queue, current_index, loop_enabled, disk>>
       /\ UNCHANGED <<clients, client_info, transport, pc, task, last, received>>

\* one inbound frame through the loop body of handle_client, with no client
\* to send to; call, ret and failed tell the command, the broadcast it
\* asked for and whether it raised
Dispatch(frame, found) ==
    LET r == handle_message(current_state, frame.command, frame.params, found)
    IN /\ current_state' = r.state
       /\ call' = frame.command
       /\ ret' = r.bcast
       /\ failed' = r.raised
       /\ UNCHANGED <<queue, current_index, is_playing, loop_enabled, disk>>
       /\ UNCHANGED <<clients, client_info, transport, pc, task, last, received>>

NextCmd == \E frame \in Frames, found \in CmdDiscoveries : Dispatch(frame, found)

SpecCmd == InitCmd /\ [][NextCmd]_vars

----------------------------------------------------------------------------
(* The queue manager and the dispatcher in one process *)

\* app.py: the queue manager and the websocket manager are constructed side
\* by side, the decks are discovered once; the folder keeps its decks
InitBoth == InitQueue /\ InitSockets(Decks)

\* the methods that fill, rearrange and empty the queue, the playback
\* methods (next_slideshow to toggle_loop), and the commands of the
\* dispatcher
NextBoth ==
    \/ CallAdd
    \/ CallRemove
    \/ CallMove
    \/ CallClear
    \/ CallNext
    \/ CallPrevious
    \/ CallStart
    \/ CallStop
    \/ CallToggleLoop
    \/ \E frame \in Frames : Dispatch(frame, Decks)

SpecBoth == InitBoth /\ [][NextBoth]_vars

----------------------------------------------------------------------------
(* The queue manager and a caller that keeps what get_queue_state returned *)

GetQueueState_returns_queue ==
    /\ call' = "get_queue_state"
    /\ ret' = [state |-> get_queue_state(Self), same_list |-> TRUE]
    /\ failed' = FALSE
    /\ UNCHANGED <<queue, current_index, is_playing, loop_enabled, disk>>
    /\ UNCHANGED wsvars

\* a call of get_queue_state: ret holds the dict; self.queue.copy() is a new
\* list object, so the dict's "queue" is not the list the manager holds
GetQueueState ==
    /\ call' = "get_queue_state"
    /\ ret' = [state |-> get_queue_state(Self), same_list |-> FALSE]
    /\ failed' = FALSE
    /\ UNCHANGED <<queue, current_index, is_playing, loop_enabled, disk>>
    /\ UNCHANGED wsvars

\* the caller appends to the list of the dict it holds, or clears it; the
\* manager's list changes with it exactly when it is the same object
ModifyReturned ==
    /\ call \in {"get_queue_state", "modify"}
    /\ \E items \in {<<>>} \cup {Append(ret.state.queue, id) : id \in Ids} :
          /\ Len(items) <= Cardinality(Ids)
          /\ ret' = [ret EXCEPT !.state.queue = items]
          /\ queue' = IF ret.same_list THEN items ELSE queue
    /\ call' = "modify"
    /\ UNCHANGED <<current_index, is_playing, loop_enabled, disk, failed>>
    /\ UNCHANGED wsvars

NextSnapshot ==
    \/ Next
    \/ GetQueueState
    \/ ModifyReturned

SpecSnapshot == Init /\ [][NextSnapshot]_vars

----------------------------------------------------------------------------
(* Properties *)

Last(s) == Len(s) - 1

Distinct(s) == \A i, j \in 1..Len(s) : s[i] = s[j] => i = j

Count(s, x) == Cardinality({i \in 1..Len(s) : s[i] = x})

\* a and b hold the same identifiers, each the same number of times
IsPermutation(a, b) ==
    /\ Len(a) = Len(b)
    /\ \A x \in Range(a) \cup Range(b) : Count(a, x) = Count(b, x)

CursorInRange(self) ==
    self.queue # <<>> =>
        0 <= self.current_index /\ self.current_index <= Last(self.queue)

True == PyBool(TRUE)

False == PyBool(FALSE)

\* C1: on a non-empty queue with loop_enabled = false and the cursor at the
\* last index, next() returns none, sets is_playing = false and leaves the
\* cursor and the items unchanged, whether or not the file write succeeds.
C1_NextAtEndStops ==
    \A ok \in BOOLEAN :
        (queue # <<>> /\ ~loop_enabled /\ current_index = Last(queue)) =>
            LET o == next_slideshow(Self, ok)
            IN /\ o.ret = None
               /\ o.self.is_playing = FALSE
               /\ o.self.current_index = current_index
               /\ o.self.queue = queue

C1_Witness ==
    /\ call = "next" /\ ret = None
    /\ Len(queue) >= 2 /\ current_index = Last(queue)
    /\ ~loop_enabled /\ ~is_playing

\* C2: on a non-empty queue with loop_enabled = true and the cursor at the
\* last index, next() sets the cursor to 0, returns the item at index 0 and
\* leaves is_playing and the items unchanged; when the cursor is not last,
\* next() increments it by exactly one and returns the new item, whatever
\* loop_enabled is.
C2_NextWrapsOrAdvances ==
    \A ok \in BOOLEAN :
        queue # <<>> =>
            LET o == next_slideshow(Self, ok)
            IN /\ (loop_enabled /\ current_index = Last(queue)) =>
                      /\ o.self.current_index = 0
                      /\ o.ret = queue[1]
                      /\ o.self.is_playing = is_playing
                      /\ o.self.queue = queue
               /\ (0 <= current_index /\ current_index < Last(queue)) =>
                      /\ o.self.current_index = current_index + 1
                      /\ o.ret = queue[current_index + 2]
                      /\ o.self.is_playing = is_playing
                      /\ o.self.queue = queue

C2_Witness ==
    /\ call = "next" /\ loop_enabled /\ is_playing
    /\ Len(queue) >= 2 /\ current_index = 0 /\ ret = queue[1]

\* start() followed by k calls of next(); oks[i] is the outcome of the file
\* write of the i-th call
RECURSIVE Played(_, _, _)
Played(self, k, oks) ==
    IF k = 0
    THEN start_queue(self, oks[0])
    ELSE next_slideshow(Played(self, k - 1, oks).self, oks[k])

\* C3: for a queue of n >= 1 distinct items, start() returns items[0] with
\* cursor 0 and is_playing true; the k-th following next() (1 <= k <= n-1)
\* returns items[k] with cursor k and is_playing still true; the n-th next()
\* returns none with is_playing false and cursor n-1 when loop is disabled,
\* and items[0] with cursor 0 and is_playing true when loop is enabled.
C3_PlayThrough ==
    (queue # <<>> /\ Distinct(queue)) =>
        LET n == Len(queue)
        IN \A oks \in [0..n -> BOOLEAN] :
            /\ LET o == Played(Self, 0, oks)
               IN o.ret = queue[1] /\ o.self.current_index = 0 /\ o.self.is_playing
            /\ \A k \in 1..(n - 1) :
                   LET o == Played(Self, k, oks)
                   IN /\ o.ret = queue[k + 1]
                      /\ o.self.current_index = k
                      /\ o.self.is_playing
            /\ LET o == Played(Self, n, oks)
               IN IF loop_enabled
                  THEN o.ret = queue[1] /\ o.self.current_index = 0 /\ o.self.is_playing
                  ELSE /\ o.ret = None
                       /\ ~o.self.is_playing
                       /\ o.self.current_index = n - 1

C3_Witness ==
    /\ call = "next" /\ ret = None
    /\ Len(queue) = 3 /\ Distinct(queue) /\ current_index = 2
    /\ ~loop_enabled /\ ~is_playing

\* C4: remove(id) of an id whose first occurrence is at index r deletes
\* exactly that entry and returns true; the cursor is decremented when
\* r < cursor, set to the new last index (0 when the queue becomes empty)
\* when r = cursor and cursor was the last index, and unchanged otherwise,
\* so if the entry under the cursor is not the removed one it is still under
\* the cursor afterwards; remove of an absent id returns false and changes
\* nothing.
C4_RemoveAdjustsCursor ==
    \A id \in Ids, ok \in BOOLEAN :
        LET o == remove_from_queue(Self, id, ok)
            c == current_index
        IN IF id \in Range(queue)
           THEN LET r == Index(queue, id)
                    q == o.self.queue
                IN /\ o.ret = True
                   /\ Len(q) = Len(queue) - 1
                   /\ \A k \in 1..Len(q) :
                          q[k] = IF k <= r THEN queue[k] ELSE queue[k + 1]
                   /\ o.self.current_index =
                          IF r < c THEN c - 1
                          ELSE IF r = c /\ c = Last(queue) THEN Max(0, Last(queue) - 1)
                          ELSE c
                   /\ r # c => get_current_slideshow(o.self) = get_current_slideshow(Self)
           ELSE o.ret = False /\ o.self = Self

C4_Witness ==
    /\ call = "remove" /\ ret = True
    /\ queue = <<"A", "C">> /\ current_index = 1

\* the outcomes of every method on every input, with the file write
\* succeeding or failing
Outcomes(self) ==
    UNION { {add_to_queue(self, id, ok) : id \in Ids}
            \cup {remove_from_queue(self, id, ok) : id \in Ids}
            \cup {reorder_queue(self, o, ok) : o \in NewOrders}
            \cup {move_in_queue(self, x[1], x[2], ok) : x \in Ids \X Positions}
            \cup {clear_queue(self, ok), next_slideshow(self, ok),
                  previous_slideshow(self, ok), start_queue(self, ok),
                  stop_queue(self, ok), toggle_loop(self, ok)}
          : ok \in BOOLEAN }

\* C5: starting from an empty queue, after any sequence of queue operations
\* the cursor satisfies 0 <= cursor <= len(items)-1 whenever items is
\* non-empty, and the next operation (with its file write succeeding or
\* failing) keeps it so.
C5_CursorInRange ==
    /\ CursorInRange(Self)
    /\ \A o \in Outcomes(Self) : CursorInRange(o.self)

C5_Witness ==
    /\ call = "remove" /\ ret = True
    /\ Len(queue) >= 2 /\ current_index = Last(queue)

\* C6: add(id) appends id at the end of items and returns true when id is
\* absent, leaving cursor, is_playing and loop_enabled unchanged; when id is
\* present it returns false and leaves the whole state unchanged; a second
\* add(id) after the first returns false and leaves items as the first left
\* them.
C6_AddIdempotent ==
    \A id \in Ids, ok \in BOOLEAN, ok2 \in BOOLEAN :
        LET o  == add_to_queue(Self, id, ok)
            o2 == add_to_queue(o.self, id, ok2)
        IN /\ IF id \notin Range(queue)
              THEN /\ o.ret = True
                   /\ o.self.queue = Append(queue, id)
                   /\ o.self.current_index = current_index
                   /\ o.self.is_playing = is_playing
                   /\ o.self.loop_enabled = loop_enabled
              ELSE o.ret = False /\ o.self = Self
           /\ o2.ret = False
           /\ o2.self = o.self

C6_Witness ==
    /\ call = "add" /\ ret = False
    /\ Len(queue) >= 2

\* C7: items never contains the same deck identifier twice.
C7_NoDuplicates == Distinct(queue)

\* C8: reorder(new_order) returns false and leaves the queue unchanged
\* whenever new_order is not a permutation of items as a multiset.
C8_ReorderRejectsNonPermutation ==
    \A new_order \in NewOrders, ok \in BOOLEAN :
        ~IsPermutation(new_order, queue) =>
            LET o == reorder_queue(Self, new_order, ok)
            IN o.ret = False /\ o.self = Self

\* C9: when reorder(new_order) succeeds on a non-empty queue, items equals
\* new_order, the identifier under the cursor before the call is the
\* identifier under the cursor after it, and is_playing and loop_enabled
\* are unchanged.
C9_ReorderKeepsCurrent ==
    \A new_order \in NewOrders, ok \in BOOLEAN :
        LET o == reorder_queue(Self, new_order, ok)
        IN (queue # <<>> /\ o.ret = True) =>
               /\ o.self.queue = new_order
               /\ get_current_slideshow(Self) # None
               /\ get_current_slideshow(o.self) = get_current_slideshow(Self)
               /\ o.self.is_playing = is_playing
               /\ o.self.loop_enabled = loop_enabled

C9_Witness ==
    /\ call = "reorder" /\ ret = True
    /\ queue = <<"B", "A">> /\ current_index = 1

\* C10: start() on an empty queue returns none and leaves cursor,
\* is_playing and loop_enabled unchanged; on a non-empty queue it sets
\* cursor = 0 and is_playing = true, returns items[0] and leaves items and
\* loop_enabled unchanged, whatever cursor and is_playing were before.
C10_Start ==
    \A ok \in BOOLEAN :
        LET o == start_queue(Self, ok)
        IN IF queue = <<>>
           THEN o.ret = None /\ o.self = Self
           ELSE /\ o.self.current_index = 0
                /\ o.self.is_playing = TRUE
                /\ o.ret = queue[1]
                /\ o.self.queue = queue
                /\ o.self.loop_enabled = loop_enabled

C10_Witness ==
    /\ call = "start" /\ ret # None
    /\ Len(queue) >= 2 /\ ret = queue[1]
    /\ current_index = 0 /\ is_playing

\* C11: previous() decrements the cursor and returns the new item when
\* cursor > 0; at cursor 0 with loop enabled it sets the cursor to the last
\* index and returns that item; at cursor 0 with loop disabled, and on an
\* empty queue, it returns none and changes nothing, the file included;
\* previous() never changes is_playing.
C11_Previous ==
    \A ok \in BOOLEAN :
        LET o == previous_slideshow(Self, ok)
        IN /\ o.self.is_playing = is_playing
           /\ o.self.queue = queue
           /\ o.self.loop_enabled = loop_enabled
           /\ IF queue = <<>> \/ (current_index = 0 /\ ~loop_enabled)
              THEN o.ret = None /\ o.self = Self /\ ~o.failed
              ELSE IF current_index > 0
              THEN /\ o.self.current_index = current_index - 1
                   /\ o.ret = queue[current_index]
              ELSE /\ o.self.current_index = Last(queue)
                   /\ o.ret = queue[Len(queue)]

C11_Witness ==
    /\ call = "previous" /\ ret = None
    /\ Len(queue) >= 2 /\ current_index = 0
    /\ ~loop_enabled /\ is_playing

\* C12: stop() sets is_playing = false and alters neither cursor, items nor
\* loop_enabled; toggle_loop() negates loop_enabled, returns the new value
\* and leaves items, cursor and is_playing unchanged, so two consecutive
\* toggle_loop() calls restore the queue state.
C12_StopAndToggle ==
    \A ok \in BOOLEAN, ok2 \in BOOLEAN :
        LET s  == stop_queue(Self, ok)
            t  == toggle_loop(Self, ok)
            t2 == toggle_loop(t.self, ok2)
        IN /\ Mem(s.self) = [Mem(Self) EXCEPT !.is_playing = FALSE]
           /\ Mem(t.self) = [Mem(Self) EXCEPT !.loop_enabled = ~loop_enabled]
           /\ t.ret = PyBool(~loop_enabled)
           /\ Mem(t2.self) = Mem(Self)

C12_Witness ==
    /\ call = "stop"
    /\ Len(queue) >= 2 /\ current_index = Last(queue) /\ ~is_playing

\* the document a queue file holds
Doc(d) == [queue |-> d.queue, current_index |-> d.current_index,
           is_playing |-> d.is_playing, loop_enabled |-> d.loop_enabled]

\* every method on every input, as the pair of its outcomes with the file
\* write succeeding (good) and failing (bad); bad.failed says that the call
\* writes the file at all
Pair(good, bad) == [good |-> good, bad |-> bad]

OutcomePairs(self) ==
    {Pair(add_to_queue(self, id, TRUE), add_to_queue(self, id, FALSE)) : id \in Ids}
    \cup {Pair(remove_from_queue(self, id, TRUE), remove_from_queue(self, id, FALSE)) : id \in Ids}
    \cup {Pair(reorder_queue(self, o, TRUE), reorder_queue(self, o, FALSE)) : o \in NewOrders}
    \cup {Pair(move_in_queue(self, x[1], x[2], TRUE), move_in_queue(self, x[1], x[2], FALSE))
            : x \in Ids \X Positions}
    \cup {Pair(clear_queue(self, TRUE), clear_queue(self, FALSE)),
          Pair(next_slideshow(self, TRUE), next_slideshow(self, FALSE)),
          Pair(previous_slideshow(self, TRUE), previous_slideshow(self, FALSE)),
          Pair(start_queue(self, TRUE), start_queue(self, FALSE)),
          Pair(stop_queue(self, TRUE), stop_queue(self, FALSE)),
          Pair(toggle_loop(self, TRUE), toggle_loop(self, FALSE))}

\* the outcome leaves the file holding exactly the manager's fields
InSync(self) == self.disk.exists /\ Doc(self.disk) = Mem(self)

\* the last call wrote (or tried to write) the queue file
Wrote ==
    \/ call \in {"clear", "stop", "toggle_loop"}
    \/ call \in {"add", "remove", "reorder", "move"} /\ ret = True
    \/ call \in {"previous", "start"} /\ ret # None
    \/ call = "next" /\ queue # <<>>

\* C13: after a mutating operation returns, provided its file write
\* succeeded, the persisted document equals the in-memory queue state; this
\* holds for every method on every input from every reachable state, states
\* whose file is stale after earlier failed writes included.
C13_WriteThrough ==
    /\ (Wrote /\ ~failed) => InSync(Self)
    /\ \A p \in OutcomePairs(Self) : p.bad.failed => InSync(p.good.self)

C13_Witness ==
    /\ call = "remove" /\ ret = True /\ ~failed
    /\ queue # <<>> /\ is_playing /\ InSync(Self)

\* C14: when the file write of a mutating operation fails, the operation
\* returns its normal result, the in-memory mutation is kept and the file
\* is left as it was; the next mutating operation whose write succeeds
\* makes the persisted document equal to the in-memory state again.
C14_FailedWriteKeepsMemory ==
    \A p \in OutcomePairs(Self) :
        p.bad.failed =>
            /\ p.bad.ret = p.good.ret
            /\ Mem(p.bad.self) = Mem(p.good.self)
            /\ p.bad.self.disk = disk
            /\ \A q \in OutcomePairs(p.bad.self) :
                   q.bad.failed => InSync(q.good.self)

C14_Witness ==
    /\ call = "add" /\ ret = True /\ failed
    /\ Len(queue) = 2 /\ disk.exists /\ Doc(disk) # Mem(Self)

\* C15: saving a reachable queue state and loading it from the file, in the
\* same manager or in a newly constructed one, yields the identical
\* {items, cursor, is_playing, loop_enabled}; a restarted manager holds
\* exactly the persisted document.
C15_RoundTrip ==
    /\ LET s == save_queue(Self, TRUE).self
       IN /\ Mem(s) = Mem(Self)
          /\ Mem(load_queue(s)) = Mem(Self)
          /\ Mem(PresentationQueueManager(s.disk)) = Mem(Self)
    /\ (call = "restart" /\ disk.exists) => InSync(Self)

C15_Witness ==
    /\ call = "restart" /\ InSync(Self)
    /\ Len(queue) = 2 /\ current_index = 1 /\ is_playing /\ loop_enabled

\* C16: after load_queue the cursor lies in [0, len(items)-1] when items is
\* non-empty, for any persisted document.
C16_LoadClampsCursor ==
    (call = "load" /\ queue # <<>>) => CursorInRange(Self)

----------------------------------------------------------------------------
(* Properties of the WebSocket manager *)

\* get_client_stats()["total_clients"]
total_clients == Cardinality(DOMAIN client_info)

\* the clients a broadcast of task c still had to send to before this step
Pending(c) == IF pc[c] = "bcast" THEN task[c].todo ELSE clients

\* in this step the broadcast of task c calls send on t
SendsTo(c, t) ==
    /\ pc[c] \in {"recv", "bcast"}
    /\ pc'[c] = "bcast"
    /\ t \in Pending(c) \ task'[c].todo

\* C17: when a send of a broadcast fails, the failed session leaves the
\* registry (broadcast set and session records, so the reported count drops
\* by one), no other session leaves it, and the broadcast goes on with the
\* remaining sessions.
C17_FailedSendEvicts ==
    [][\A c, t \in Conns :
          (SendsTo(c, t) /\ transport[t] # "open" /\ t \in clients /\ t \in DOMAIN client_info) =>
              /\ clients' = clients \ {t}
              /\ DOMAIN client_info' = DOMAIN client_info \ {t}
              /\ total_clients' = total_clients - 1
              /\ task'[c].todo = Pending(c) \ {t}]_vars

\* the part of C17 the broadcast does keep
C17_Held ==
    [][\A c, t \in Conns :
          (SendsTo(c, t) /\ transport[t] # "open" /\ t \in clients /\ t \in DOMAIN client_info) =>
              /\ clients' = clients \ {t}
              /\ task'[c].todo = Pending(c) \ {t}]_vars

\* C18: a connection that has not been admitted has been sent nothing and
\* is no target of any broadcast; its admission sends it a state_update
\* with the active deck, slide index and playing flag of the shared state
\* as it is at that moment, with no command read and no mutation made.
C18_SnapshotOnAdmission ==
    /\ [](\A c \in Conns :
            pc[c] = "new" =>
                /\ last[c] = NoFrame
                /\ c \notin clients
                /\ \A d \in Conns : c \notin task[d].todo)
    /\ [][\A c \in Conns :
            (pc[c] = "new" /\ c \in clients') =>
                /\ last'[c] = [type |-> "state_update",
                               current_slideshow |-> current_state.current_slideshow,
                               current_slide |-> current_state.current_slide,
                               playing |-> current_state.playing]
                /\ current_state' = current_state
                /\ received' = received]_vars

C18_Witness ==
    /\ pc["c3"] = "hello"
    /\ transport["c3"] = "open"
    /\ received = 2
    /\ current_state.current_slideshow.id = "A"
    /\ current_state.current_slide = 1
    /\ last["c3"].type = "state_update"
    /\ last["c3"].current_slideshow = current_state.current_slideshow
    /\ last["c3"].current_slide = 1
    /\ \A c \in Controllers : pc[c] = "recv"

\* whether the catalog has a deck with this id
Resolves(id, slideshows) == \E i \in 1..Len(slideshows) : slideshows[i].id = id

\* in this step task c starts a broadcast: the envelope is taken from the
\* state the step leaves, the targets are all the clients, and the first
\* of them is sent to at once
StartsBroadcast(c, message) ==
    /\ pc[c] = "recv"
    /\ pc'[c] = "bcast"
    /\ task'[c].message = message
    /\ \E t \in clients :
          /\ task'[c].todo = clients \ {t}
          /\ IF transport[t] = "open" THEN last'[t] = message ELSE t \notin clients'

\* C19: load_slideshow with an id that resolves in the catalog makes that
\* deck the active deck with slide index 0 and playing false, whatever the
\* state was, and a state broadcast to all clients follows; with an id that
\* does not resolve the state is unchanged and nothing is broadcast.
C19_LoadSlideshow ==
    /\ [](\A id \in Ids \cup {None}, found \in Discoveries :
            LET cs == current_state
                r == handle_message(cs, "load_slideshow", [NoParams EXCEPT !.id = id], found)
            IN /\ ~r.raised
               /\ IF Resolves(id, cs.slideshows)
                  THEN /\ r.state.current_slideshow.id = id
                       /\ \E i \in 1..Len(cs.slideshows) :
                             r.state.current_slideshow = cs.slideshows[i]
                       /\ r.state.current_slide = 0
                       /\ r.state.playing = FALSE
                       /\ r.state.slideshows = cs.slideshows
                       /\ r.bcast = "state"
                  ELSE r.state = cs /\ r.bcast = "none")
    /\ [][\A c \in Conns :
            (pc[c] = "recv" /\ pc'[c] = "bcast" /\ task'[c].message.type = "state_update") =>
                StartsBroadcast(c, [type |-> "state_update",
                                    current_slideshow |-> current_state'.current_slideshow,
                                    current_slide |-> current_state'.current_slide,
                                    playing |-> current_state'.playing])]_vars
    /\ [][(received' # received /\ pc' = pc) => UNCHANGED <<clients, last, task>>]_vars

\* a second load, its broadcast sent to all three clients
C19_Witness ==
    /\ pc["c1"] = "bcast"
    /\ task["c1"].todo = {}
    /\ task["c1"].message.type = "state_update"
    /\ task["c1"].message.current_slideshow.id = "B"
    /\ current_state.current_slideshow.id = "B"
    /\ current_state.current_slide = 0
    /\ ~current_state.playing
    /\ clients = Conns
    /\ \A c \in Conns : last[c] = task["c1"].message
    /\ received = 2

\* the params a set_slide frame can carry: no slide, or an index
SetSlideParams ==
    {NoParams} \cup {[NoParams EXCEPT !.has_slide = TRUE, !.slide = i] : i \in SlideArgs}

\* C20: set_slide(i) sets the slide index to i and broadcasts when a deck is
\* active and 0 <= i < slide count; with no active deck, i out of range or
\* no slide parameter the state is unchanged and nothing is broadcast; the
\* sender stays connected, registered and in its receive loop.
C20_SetSlide ==
    /\ [](\A params \in SetSlideParams, found \in Discoveries :
            LET cs == current_state
                r == handle_message(cs, "set_slide", params, found)
            IN IF /\ cs.current_slideshow # NoDeck
                  /\ params.has_slide
                  /\ 0 <= params.slide
                  /\ params.slide < cs.current_slideshow.slides
               THEN /\ r.state = [cs EXCEPT !.current_slide = params.slide]
                    /\ r.bcast = "state"
               ELSE r.state = cs /\ r.bcast = "none")
    /\ [][\A c \in Conns :
            (received' # received /\ pc[c] = "recv" /\ transport[c] = "open") =>
                /\ transport'[c] = "open"
                /\ pc'[c] \in {"recv", "bcast"}
                /\ c \in DOMAIN client_info'
                /\ c \in clients => c \in clients'
                /\ pc'[c] = "bcast" =>
                      StartsBroadcast(c, IF task'[c].message.type = "state_update"
                                         THEN state_update(current_state')
                                         ELSE slideshows_update(current_state'))
                /\ pc' = pc => UNCHANGED <<clients, last, task>>]_vars

\* set_slide(1) on the two-slide deck, being broadcast
C20_Witness ==
    /\ received = 2
    /\ pc["c2"] = "bcast"
    /\ task["c2"].message.type = "state_update"
    /\ task["c2"].message.current_slide = 1
    /\ current_state.current_slideshow.id = "A"
    /\ current_state.current_slide = 1
    /\ transport["c2"] = "open"
    /\ "c2" \in clients
    /\ pc["c1"] = "recv"

----------------------------------------------------------------------------
(* Properties of the dispatcher *)

\* the state after one frame with this command and no params
After(cs, command) == handle_message(cs, command, NoParams, cs.slideshows).state

RECURSIVE Repeated(_, _, _)
\* the state after k frames with this command
Repeated(cs, command, k) ==
    IF k = 0 THEN cs ELSE Repeated(After(cs, command), command, k - 1)

\* C21: with an active deck of N >= 1 slides next_slide moves the index one
\* up, from N-1 to 0, and prev_slide one down, from 0 to N-1; both leave
\* deck, playing and catalog alone and ask for a state broadcast; N times
\* next_slide, and next_slide then prev_slide, give the index back.  With
\* no active deck both change nothing and ask for no broadcast.
C21_NextPrevWrap ==
    \A found \in CmdDiscoveries :
        LET cs == current_state
            N == cs.current_slideshow.slides
            i == cs.current_slide
            nx == handle_message(cs, "next_slide", NoParams, found)
            pv == handle_message(cs, "prev_slide", NoParams, found)
        IN IF cs.current_slideshow = NoDeck
           THEN /\ nx.state = cs /\ nx.bcast = "none"
                /\ pv.state = cs /\ pv.bcast = "none"
           ELSE N >= 1 =>
                /\ nx.state = [cs EXCEPT !.current_slide = IF i = N - 1 THEN 0 ELSE i + 1]
                /\ pv.state = [cs EXCEPT !.current_slide = IF i = 0 THEN N - 1 ELSE i - 1]
                /\ nx.bcast = "state" /\ ~nx.raised
                /\ pv.bcast = "state" /\ ~pv.raised
                /\ Repeated(cs, "next_slide", N) = cs
                /\ Repeated(cs, "prev_slide", N) = cs
                /\ After(nx.state, "prev_slide") = cs
                /\ After(pv.state, "next_slide") = cs

\* next_slide has wrapped from the last slide of a three-slide deck
C21_Witness ==
    /\ call = "next_slide"
    /\ ret = "state"
    /\ current_state.current_slideshow.slides = 3
    /\ current_state.current_slide = 0

\* C22: whenever a deck is active the slide index is a position of that
\* deck: 0 <= current_slide < number of slides.
C22_SlideIndexInRange ==
    current_state.current_slideshow # NoDeck =>
        /\ 0 <= current_state.current_slide
        /\ current_state.current_slide < current_state.current_slideshow.slides

----------------------------------------------------------------------------
(* Properties of commands and their broadcasts *)

\* the state_update envelope of the state a step leaves
NewStateEnvelope ==
    [type |-> "state_update",
     current_slideshow |-> current_state'.current_slideshow,
     current_slide |-> current_state'.current_slide,
     playing |-> current_state'.playing]

\* C23: play sets playing and pause clears it in every state, also with no
\* active deck; deck, slide index and catalog stay as they are; a state
\* broadcast with the new state goes to every client of the broadcast set.
C23_PlayPause ==
    /\ [](\A found \in Discoveries :
            LET cs == current_state
                pl == handle_message(cs, "play", NoParams, found)
                pa == handle_message(cs, "pause", NoParams, found)
            IN /\ pl.state = [cs EXCEPT !.playing = TRUE]
               /\ pa.state = [cs EXCEPT !.playing = FALSE]
               /\ pl.bcast = "state" /\ ~pl.raised
               /\ pa.bcast = "state" /\ ~pa.raised)
    /\ [][\A c \in Conns :
            (pc[c] = "recv" /\ pc'[c] = "bcast" /\ current_state'.playing # current_state.playing) =>
                /\ current_state'.playing =>
                      current_state' = [current_state EXCEPT !.playing = TRUE]
                /\ StartsBroadcast(c, NewStateEnvelope)]_vars

\* play with no active deck, sent to all three clients
C23_Witness ==
    /\ current_state.current_slideshow = NoDeck
    /\ current_state.playing
    /\ \E c \in Controllers :
          /\ pc[c] = "bcast"
          /\ task[c].todo = {}
          /\ task[c].message = state_update(current_state)
          /\ clients = Conns
          /\ \A t \in Conns : last[t] = task[c].message

----------------------------------------------------------------------------
(* Properties of one session's frames *)

\* frames that are no state-changing command: the two console commands, an
\* unknown command name, and a text that is no command envelope
Ignored == {"get_client_info", "show_clients", "bogus", "malformed"}

----------------------------------------------------------------------------
(* Properties of the queue requests *)

\* C25: after a start, next or previous request whose queue method returned
\* the id of a deck of the catalog, that deck is the active deck, the slide
\* index is 0, and every admitted session has been sent a state_update
\* saying so.
C25_QueueSwitchesDeck ==
    (/\ call \in {"start", "next", "previous"}
     /\ ret.returned # None
     /\ Resolves(ret.returned, current_state.slideshows)) =>
        /\ current_state.current_slideshow.id = ret.returned
        /\ current_state.current_slide = 0
        /\ \A c \in clients : last[c] = state_update(current_state)

\* C26: an add, remove or reorder request whose queue method returned True
\* is answered 200 with success true and every admitted session is sent a
\* frame with the queue's snapshot; one whose method returned False is
\* answered 200 with success false.
C26_QueueRequestAnswers ==
    (call \in {"add", "remove", "reorder"} /\ ret.returned # None) =>
        /\ ret.status = 200
        /\ ret.success = ret.returned
        /\ ret.returned = PyBool(TRUE) =>
              \A c \in clients :
                  /\ last[c].type = "queue_update"
                  /\ last[c].queue = get_queue_state(Self)

----------------------------------------------------------------------------
(* Properties of the two threads *)

\* the execution contexts that are inside a mutation of the shared
\* presentation state: tasks between the stores of a command, and the HTTP
\* thread inside update_slideshows_list
MutatingState ==
    {c \in Conns : pc[c] \in InsideCommand}
    \cup (IF call = "update_slideshows_list" THEN {"http"} ELSE {})

\* C27: at no time are two execution contexts inside a mutation of the
\* shared presentation state (its list of decks included).
C27_MutationsSerialized == Cardinality(MutatingState) <= 1

----------------------------------------------------------------------------
(* Properties of the session registry *)

\* the connection's handler is running: admitted and not yet cleaned up
Live(c) == pc[c] \in {"hello", "recv", "bcast"}

\* C28: a connection has a session record exactly while its handler runs:
\* none before admission, one from admission on with the stamp of the
\* admission, none and no place in the broadcast set once the receive loop
\* has ended; every frame read, valid or not, stamps the record of the
\* connection that sent it and no other, and nothing else changes a stamp.
C28_SessionLifetime ==
    /\ [](\A c \in Conns :
            /\ Live(c) <=> c \in DOMAIN client_info
            /\ ~Live(c) => c \notin clients)
    /\ [][\A c \in Conns :
            (pc[c] = "new" /\ Live(c)') =>
                /\ client_info'[c].last_activity = connect_time
                /\ c \in clients']_vars
    /\ [][received' # received =>
            \E c \in Conns :
                /\ pc[c] = "recv"
                /\ client_info'[c].last_activity = received'
                /\ \A d \in DOMAIN client_info \ {c} : client_info'[d] = client_info[d]]_vars
    /\ [][\A c \in DOMAIN client_info \cap DOMAIN client_info' :
            client_info'[c] # client_info[c] => received' # received]_vars

\* c1 has read a frame and is gone while c2, stamped by the second frame,
\* is in a broadcast and c3 is still admitted
C28_Witness ==
    /\ pc["c1"] = "done"
    /\ "c1" \notin DOMAIN client_info
    /\ "c1" \notin clients
    /\ received = 2
    /\ pc["c2"] = "bcast"
    /\ client_info["c2"].last_activity = 2
    /\ pc["c3"] = "recv"
    /\ client_info["c3"].last_activity = connect_time
    /\ "c3" \in clients
    /\ task["c2"].message.type = "state_update"
    /\ task["c2"].message.current_slide = 1

----------------------------------------------------------------------------
(* Properties of delivery *)

\* no broadcast is suspended in a send
Quiescent == \A c \in Conns : pc[c] # "bcast"

\* the sessions that can be sent to and whose last frame is a state_update
Viewing ==
    {c \in clients : transport[c] = "open" /\ last[c].type = "state_update"}

\* all frames read so far came from connection c: no other connection has
\* a stamp of a frame or has left
SoleSender(c) ==
    /\ c \in DOMAIN client_info
    /\ \A d \in Conns \ {c} :
          /\ pc[d] # "done"
          /\ d \in DOMAIN client_info => client_info[d].last_activity = connect_time

\* C29: broadcasts of different connections are not ordered against each
\* other.  As long as one connection alone sends commands, every session
\* shows the current state once the broadcasts are done; the witness is a
\* run in which two connections' broadcasts overlap and leave a session
\* with a state_update that is neither the current state nor what another
\* session shows.
C29_OneSenderAgrees ==
    (Quiescent /\ \E c \in Conns : SoleSender(c)) =>
        \A t \in Viewing : last[t] = state_update(current_state)

C29_Witness ==
    /\ Quiescent
    /\ received = 2
    /\ {"c1", "c2"} \subseteq DOMAIN client_info
    /\ client_info["c1"].last_activity = 1
    /\ client_info["c2"].last_activity = 2
    /\ \E t, u \in Viewing :
          /\ last[t] # state_update(current_state)
          /\ last[t] # last[u]
          /\ last[u] = state_update(current_state)

----------------------------------------------------------------------------
(* Properties of the two playing flags *)

\* the labels of the queue manager's methods
QueueCalls ==
    {"add", "remove", "move", "clear", "next", "previous", "start", "stop",
     "toggle_loop"}

\* C30: the queue and the shared presentation state are independent.  No
\* real-time command changes a field of the queue or its file, and no
\* method of the queue changes the shared state (its playing flag and its
\* current_slide in particular); the witness is a state where the
\* queue is playing and the shared state is not, after both a queue method
\* and a command have run.
C30_Independent ==
    [][/\ call' \notin QueueCalls =>
            UNCHANGED <<queue, current_index, is_playing, loop_enabled, disk>>
       /\ call' \in QueueCalls =>
            /\ current_state'.playing = current_state.playing
            /\ current_state'.current_slide = current_state.current_slide
            /\ current_state' = current_state]_vars

C30_Witness ==
    /\ call = "pause"
    /\ is_playing
    /\ ~current_state.playing
    /\ queue # <<>>
    /\ current_state.current_slideshow # NoDeck

----------------------------------------------------------------------------
(* Properties of get_queue_state *)

\* C31: in every reachable state get_queue_state returns the queue's items,
\* their number, the cursor, is_playing and loop_enabled, and as
\* current_slideshow the item under the cursor when the cursor is in range
\* and None otherwise; the call, and a change of the returned list, leave
\* every field of the manager and the file as they were.
C31_Snapshot ==
    /\ [](LET s == get_queue_state(Self)
          IN /\ s.queue = queue
             /\ s.queue_length = Len(queue)
             /\ s.current_index = current_index
             /\ s.is_playing = is_playing
             /\ s.loop_enabled = loop_enabled
             /\ s.current_slideshow =
                   IF current_index \in 0..(Len(queue) - 1)
                   THEN queue[current_index + 1]
                   ELSE None
             /\ call = "get_queue_state" => ret.state = s)
    /\ [][call' \in {"get_queue_state", "modify"} =>
             UNCHANGED <<queue, current_index, is_playing, loop_enabled, disk>>]_vars

C31_Witness ==
    /\ call = "modify"
    /\ ret.state.queue # queue
    /\ queue # <<>>
    /\ ret.state.current_slideshow = queue[current_index + 1]
    /\ is_playing

----------------------------------------------------------------------------
(* Properties of one broadcast call *)

\* C32: one broadcast call builds its envelope once, from the shared state
\* as the call starts, and its targets are the clients of that moment.  Each
\* send goes to one target not yet sent to and carries that envelope,
\* whatever has happened to the shared state and the client set since; a
\* target whose send fails is dropped and not tried again, and no client is
\* added to the targets while the call runs.
C32_OneEnvelope ==
    [][\A c \in Conns :
          /\ (pc[c] # "bcast" /\ pc'[c] = "bcast") =>
                /\ task'[c].message \in {state_update(current_state'),
                                         slideshows_update(current_state')}
                /\ \E t \in clients : task'[c].todo = clients \ {t}
          /\ (pc[c] = "bcast" /\ pc'[c] = "bcast") =>
                /\ task'[c].message = task[c].message
                /\ task'[c].todo \subseteq task[c].todo
          /\ pc'[c] = "bcast" => Cardinality(Pending(c) \ task'[c].todo) <= 1
          /\ \A t \in Conns :
                SendsTo(c, t) =>
                    IF transport[t] = "open"
                    THEN last'[t] = task'[c].message
                    ELSE last'[t] = last[t] /\ t \notin clients'
          /\ (pc[c] # "new" /\ last'[c] # last[c] /\ last'[c] # NoFrame) =>
                \E d \in Conns : SendsTo(d, c)]_vars

C32_Witness ==
    /\ received = 2
    /\ pc["c1"] = "bcast"
    /\ task["c1"].message.type = "state_update"
    /\ task["c1"].message # state_update(current_state)
    /\ task["c1"].todo # {}
    /\ \E u \in clients : last[u] = task["c1"].message
    /\ pc["c3"] = "hello"
    /\ "c3" \in clients \ task["c1"].todo
    /\ last["c3"] = state_update(current_state)

----------------------------------------------------------------------------
(* Properties of idle sessions *)

\* C33: a session leaves the client set and loses its record only on a
\* closed transport (the end of its receive loop, or a send to it that
\* fails).  While its transport is open an admitted session stays admitted
\* whatever the other sessions do, whether or not it ever sends a frame, and
\* every broadcast that starts has it among its targets.
C33_IdleStaysAdmitted ==
    /\ [][\A c \in Conns :
            /\ (c \in clients /\ c \notin clients') => transport[c] = "closed"
            /\ (c \in DOMAIN client_info /\ c \notin DOMAIN client_info') =>
                  transport[c] = "closed"]_vars
    /\ [][\A c, d \in Conns :
            (c \in clients /\ transport[c] = "open"
                /\ pc[d] # "bcast" /\ pc'[d] = "bcast") =>
                \/ c \in task'[d].todo
                \/ last'[c] = task'[d].message]_vars
    /\ [](\A c \in Conns :
            (transport[c] = "open" /\ pc[c] # "new") =>
                c \in clients /\ c \in DOMAIN client_info)

C33_Witness ==
    /\ received = 2
    /\ Quiescent
    /\ pc["c1"] = "done"
    /\ pc["c2"] = "recv"
    /\ pc["c3"] = "recv"
    /\ transport["c3"] = "open"
    /\ "c3" \in clients
    /\ client_info["c3"].last_activity = connect_time
    /\ current_state.playing
    /\ last["c3"] = state_update(current_state)

----------------------------------------------------------------------------
(* Properties of the two structures of the registry *)

\* C34: between handler steps the broadcast set and the session records
\* hold the same connections, so the count the administrative surface
\* reports is the number of broadcast targets.
C34_RegistryAgrees ==
    /\ clients = DOMAIN client_info
    /\ total_clients = Cardinality(clients)

\* the part of C34 that holds: every broadcast target has a record, and a
\* record without a target is of a connection whose transport is closed
C34_Held ==
    /\ clients \subseteq DOMAIN client_info
    /\ \A c \in DOMAIN client_info \ clients : transport[c] = "closed"

----------------------------------------------------------------------------
(* Properties of the order of commands *)

\* C35: a connection's frames are applied one at a time in the order they
\* are read: a frame is read only by a handler that is waiting in its
\* receive loop, never by one whose broadcast is still sending, and it takes
\* the next sequence number.  The step that reads a frame applies the
\* command and, if it broadcasts the state, builds the envelope from the
\* state it leaves; the deck, slide and playing flag change in no other
\* step, and the step touches no other handler's position or broadcast, so
\* handlers of different connections alternate only where a broadcast is
\* suspended in a send.
C35_CommandOrder ==
    /\ [][received' # received =>
            \E c \in Conns :
                /\ pc[c] = "recv"
                /\ client_info[c].last_activity < received'
                /\ client_info'[c].last_activity = received'
                /\ (pc'[c] = "bcast" /\ task'[c].message.type = "state_update") =>
                      task'[c].message = state_update(current_state')
                /\ \A d \in Conns \ {c} : pc'[d] = pc[d] /\ task'[d] = task[d]]_vars
    /\ [][state_update(current_state') # state_update(current_state) =>
            received' # received]_vars
    /\ [][\A c \in Conns :
            pc[c] = "bcast" =>
                /\ c \in DOMAIN client_info'
                /\ client_info'[c] = client_info[c]
                /\ pc'[c] \in {"bcast", "recv"}]_vars

C35_Witness ==
    /\ received = 2
    /\ pc["c1"] = "bcast"
    /\ pc["c2"] = "bcast"
    /\ client_info["c1"].last_activity = 1
    /\ client_info["c2"].last_activity = 2
    /\ task["c1"].todo # {}
    /\ task["c2"].todo # {}
    /\ task["c1"].message.type = "state_update"
    /\ task["c1"].message # task["c2"].message
    /\ task["c2"].message = state_update(current_state)

----------------------------------------------------------------------------
(* Properties of the queue's playing flag *)

\* C36: in every state reached from the empty queue by the queue's methods,
\* is_playing implies that the queue has an item.
C36_PlayingNeedsItems == is_playing => queue # <<>>

\* the part of C36 that holds: start_queue sets the flag only on a queue
\* with items, and clear_queue leaves the flag down
C36_Held ==
    [][/\ (~is_playing /\ is_playing') => (call' = "start" /\ queue' # <<>>)
       /\ call' = "clear" => ~is_playing']_vars

----------------------------------------------------------------------------
(* Properties of move_in_queue *)

\* C37: move_in_queue(id, pos) with id in the queue returns True and leaves
\* the queue a permutation of what it was, with id at index
\* max(0, min(pos, len - 1)) and the other items in the order they had, and
\* the item under the cursor is the same item as before; with id not in
\* the queue it returns False and changes neither a field nor the file.
C37_Move ==
    \A id \in Ids, pos \in Positions, ok \in BOOLEAN :
        LET out == move_in_queue(Self, id, pos, ok)
            at  == Max(0, Min(pos, Len(queue) - 1))
        IN IF id \in Range(queue)
           THEN /\ out.ret = PyBool(TRUE)
                /\ IsPermutation(out.self.queue, queue)
                /\ out.self.queue[at + 1] = id
                /\ \E i \in 0..(Len(queue) - 1) :
                      /\ queue[i + 1] = id
                      /\ Pop(out.self.queue, at) = Pop(queue, i)
                /\ get_current_slideshow(out.self) = get_current_slideshow(Self)
                /\ out.self.is_playing = is_playing
                /\ out.self.loop_enabled = loop_enabled
           ELSE /\ out.ret = PyBool(FALSE)
                /\ out.self = Self

C37_Witness ==
    /\ call = "move"
    /\ ret = PyBool(TRUE)
    /\ Len(queue) = 3
    /\ current_index = 2
    /\ queue[current_index + 1] = "A"
    /\ queue[1] = "C"

----------------------------------------------------------------------------
(* Properties of rejected queue requests *)

\* C38: a queue request that is answered with an error status, or with
\* success false, leaves the queue's items, cursor, is_playing and
\* loop_enabled and the queue file as they were before the request.
C38_ErrorsChangeNothing ==
    [][(ret'.status # 200 \/ ret'.success = PyBool(FALSE)) =>
          UNCHANGED <<queue, current_index, is_playing, loop_enabled, disk>>]_vars

\* the part of C38 that holds: a request the handler rejects with 400, and
\* one whose method returns False, change nothing
C38_Held ==
    [][(ret'.status = 400 \/ ret'.success = PyBool(FALSE)) =>
          UNCHANGED <<queue, current_index, is_playing, loop_enabled, disk>>]_vars

====
